---------------------------- MODULE Spec2Model ----------------------------
(***************************************************************************)
(* A model of torch/utils/_pytree.py: the registry SUPPORTED_NODES, the    *)
(* structural descriptor TreeSpec / LeafSpec, and tree_flatten,            *)
(* tree_unflatten and _broadcast_to_and_flatten.                           *)
(*                                                                         *)
(* Python values are records [type, val, keys, items]:                     *)
(*   int        type "int",   val the number                               *)
(*   str        type "str",   keys <<s>>                                   *)
(*   list       type "list",  items the elements                           *)
(*   tuple      type "tuple", items the elements                           *)
(*   torch.Size type "Size",  items the elements (a tuple subclass, not    *)
(*              registered when the module is imported)                    *)
(*   dict       type "dict",  keys in insertion order, items the values    *)
(*              (items[i] is the value stored under keys[i])               *)
(***************************************************************************)
EXTENDS Integers, Sequences, FiniteSets, TLC

VARIABLES SUPPORTED_NODES, op, pytree, values, spec, other, out, first, log

vars == <<SUPPORTED_NODES, op, pytree, values, spec, other, out, first, log>>

(***************************************************************************)
(* Bounds of the input sets.                                               *)
(***************************************************************************)
MaxNodes == 4

MaxSpecNodes == 3

MaxSmall == 2

MaxLeaves == 3

MaxRegisters == 2

(***************************************************************************)
(* Python values.                                                          *)
(***************************************************************************)
PyInt(n) == [type |-> "int", val |-> n, keys |-> <<>>, items |-> <<>>]

PyStr(s) == [type |-> "str", val |-> 0, keys |-> <<s>>, items |-> <<>>]

PyList(xs) == [type |-> "list", val |-> 0, keys |-> <<>>, items |-> xs]

PyTuple(xs) == [type |-> "tuple", val |-> 0, keys |-> <<>>, items |-> xs]

PySize(xs) == [type |-> "Size", val |-> 0, keys |-> <<>>, items |-> xs]

PyDict(ks, xs) == [type |-> "dict", val |-> 0, keys |-> ks, items |-> xs]

PyNone == [type |-> "NoneType", val |-> 0, keys |-> <<>>, items |-> <<>>]

(* A context is None or a list of keys. *)
NoneCtx == [none |-> TRUE, keys |-> <<>>]

KeysCtx(ks) == [none |-> FALSE, keys |-> ks]

(***************************************************************************)
(* Sequence helpers.                                                       *)
(***************************************************************************)
SetMin(S) == CHOOSE m \in S : \A n \in S : m <= n

RECURSIVE SumSeq(_)
SumSeq(s) == IF s = <<>> THEN 0 ELSE Head(s) + SumSeq(Tail(s))

(* Variant: the child's leaves put before those gathered so far. *)
ExtendAtFront(result, flat) == flat \o result

(* result += flat *)
Extend(result, flat) == result \o flat

RECURSIVE ExtendAll(_, _)
ExtendAll(result, flats) ==
    IF flats = <<>> THEN result
    ELSE ExtendAll(Extend(result, Head(flats)), Tail(flats))

(* Variant: start never advanced, values[0:end]. *)
SliceFromZero(vs, start, end) ==
    IF end > Len(vs) THEN vs ELSE SubSeq(vs, 1, end)

(* values[start:end], with Python's clamping of the two indices *)
Slice(vs, start, end) ==
    LET e == IF end > Len(vs) THEN Len(vs) ELSE end
    IN  IF start >= e THEN <<>> ELSE SubSeq(vs, start + 1, e)

(* Variant: [x], not repeated. *)
RepeatOnce(x, n) == <<x>>

(* [x] * n *)
Repeat(x, n) == [i \in 1..n |-> x]

(***************************************************************************)
(* The NodeDef functions of the module.                                    *)
(***************************************************************************)
NodeDef(flatten_fn, unflatten_fn) ==
    [flatten_fn |-> flatten_fn, unflatten_fn |-> unflatten_fn]

(* What iterating over a registered container yields. *)
Iterate(d) ==
    IF d.type = "dict" THEN [i \in 1..Len(d.keys) |-> PyStr(d.keys[i])]
    ELSE d.items

FlattenReturn(children, context) ==
    [exc |-> "", children |-> children, context |-> context]

FlattenRaise(exc) == [exc |-> exc, children |-> <<>>, context |-> NoneCtx]

_dict_flatten(d) ==
    IF d.type = "dict" THEN FlattenReturn(d.items, KeysCtx(d.keys))
    ELSE FlattenRaise("AttributeError")

_list_flatten(d) == FlattenReturn(Iterate(d), NoneCtx)

_tuple_flatten(d) == FlattenReturn(Iterate(d), NoneCtx)

UnflattenReturn(tree) == [exc |-> "", tree |-> tree]

UnflattenRaise(exc) == [exc |-> exc, tree |-> PyNone]

(* d[key] = value on an insertion-ordered dict *)
DictSet(d, key, value) ==
    IF \E i \in 1..Len(d.keys) : d.keys[i] = key
    THEN LET i == CHOOSE j \in 1..Len(d.keys) : d.keys[j] = key
         IN  PyDict(d.keys, [d.items EXCEPT ![i] = value])
    ELSE PyDict(Append(d.keys, key), Append(d.items, value))

RECURSIVE DictFromZip(_, _, _)
DictFromZip(d, ks, vs) ==
    IF ks = <<>> \/ vs = <<>> THEN d
    ELSE DictFromZip(DictSet(d, Head(ks), Head(vs)), Tail(ks), Tail(vs))

_dict_unflatten(vs, context) ==
    IF context.none THEN UnflattenRaise("TypeError")
    ELSE UnflattenReturn(DictFromZip(PyDict(<<>>, <<>>), context.keys, vs))

_list_unflatten(vs, context) == UnflattenReturn(PyList(vs))

(* Variant: a tuple rebuilt as a list. *)
_tuple_unflatten_as_list(vs, context) == UnflattenReturn(PyList(vs))

_tuple_unflatten(vs, context) == UnflattenReturn(PyTuple(vs))

CallFlattenFn(fn, d) ==
    CASE fn = "_dict_flatten" -> _dict_flatten(d)
      [] fn = "_list_flatten" -> _list_flatten(d)
      [] fn = "_tuple_flatten" -> _tuple_flatten(d)

CallUnflattenFn(fn, vs, context) ==
    CASE fn = "_dict_unflatten" -> _dict_unflatten(vs, context)
      [] fn = "_list_unflatten" -> _list_unflatten(vs, context)
      [] fn = "_tuple_unflatten" -> _tuple_unflatten(vs, context)

(***************************************************************************)
(* The registry.                                                           *)
(***************************************************************************)
(* Variant: the table replaced by the one entry. *)
_register_replacing_table(typ, flatten_fn, unflatten_fn) ==
    [t \in {typ} |-> NodeDef(flatten_fn, unflatten_fn)]

_register_pytree_node(typ, flatten_fn, unflatten_fn) ==
    [t \in DOMAIN SUPPORTED_NODES \cup {typ} |->
        IF t = typ THEN NodeDef(flatten_fn, unflatten_fn) ELSE SUPPORTED_NODES[t]]

(* The registry once the module is imported (the three calls at its top level). *)
ImportedNodes ==
    [t \in {"dict", "list", "tuple"} |->
        CASE t = "dict" -> NodeDef("_dict_flatten", "_dict_unflatten")
          [] t = "list" -> NodeDef("_list_flatten", "_list_unflatten")
          [] t = "tuple" -> NodeDef("_tuple_flatten", "_tuple_unflatten")]

(* Variant: the built-in containers tested for, not the table. *)
_is_leaf_of_builtins(p) == p.type \notin {"dict", "list", "tuple"}

_is_leaf(p) == p.type \notin DOMAIN SUPPORTED_NODES

(***************************************************************************)
(* TreeSpec and LeafSpec.  cls is the class of the object: "TreeSpec",     *)
(* "LeafSpec" (a subclass of TreeSpec) or "object" (anything else).        *)
(***************************************************************************)
(* Variant: num_leaves the number of children. *)
TreeSpecCountingChildren(typ, context, children_specs) ==
    [cls |-> "TreeSpec", type |-> typ, context |-> context,
     children_specs |-> children_specs, num_leaves |-> Len(children_specs)]

TreeSpec(typ, context, children_specs) ==
    [cls |-> "TreeSpec", type |-> typ, context |-> context,
     children_specs |-> children_specs,
     num_leaves |-> SumSeq([i \in 1..Len(children_specs) |-> children_specs[i].num_leaves])]

LeafSpec ==
    [TreeSpec("None", NoneCtx, <<>>) EXCEPT !.cls = "LeafSpec", !.num_leaves = 1]

NotATreeSpec ==
    [cls |-> "object", type |-> "None", context |-> NoneCtx,
     children_specs |-> <<>>, num_leaves |-> 0]

(* Variant: type(s) == TreeSpec, subclasses left out. *)
IsExactlyTreeSpec(s) == s.cls = "TreeSpec"

(* isinstance(s, TreeSpec) *)
IsTreeSpec(s) == s.cls \in {"TreeSpec", "LeafSpec"}

(* isinstance(s, LeafSpec) *)
IsLeafSpec(s) == s.cls = "LeafSpec"

(***************************************************************************)
(* tree_flatten                                                            *)
(***************************************************************************)
FlatReturn(leaves, s) == [exc |-> "", leaves |-> leaves, spec |-> s]

FlatRaise(exc) == [exc |-> exc, leaves |-> <<>>, spec |-> NotATreeSpec]

RECURSIVE tree_flatten(_)
tree_flatten(p) ==
    IF _is_leaf(p) THEN FlatReturn(<<p>>, LeafSpec)
    ELSE LET fl == CallFlattenFn(SUPPORTED_NODES[p.type].flatten_fn, p)
         IN  IF fl.exc # "" THEN FlatRaise(fl.exc)
             ELSE LET subs == [i \in 1..Len(fl.children) |-> tree_flatten(fl.children[i])]
                      bad == {i \in 1..Len(fl.children) : subs[i].exc # ""}
                  IN  IF bad # {} THEN FlatRaise(subs[SetMin(bad)].exc)
                      ELSE FlatReturn(
                               ExtendAll(<<>>, [i \in 1..Len(fl.children) |-> subs[i].leaves]),
                               TreeSpec(p.type, fl.context,
                                        [i \in 1..Len(fl.children) |-> subs[i].spec]))

(***************************************************************************)
(* tree_unflatten.  calls counts the invocations of registered unflatten   *)
(* functions the call has made by the time it returns or raises.           *)
(***************************************************************************)
UnflatReturn(tree, calls) == [exc |-> "", tree |-> tree, calls |-> calls]

UnflatRaise(exc, calls) == [exc |-> exc, tree |-> PyNone, calls |-> calls]

(* Variant: only too few values refused. *)
TooFewValues(vs, s) == Len(vs) < s.num_leaves

(* len(values) != spec.num_leaves *)
LeafCountMismatch(vs, s) == Len(vs) # s.num_leaves

RECURSIVE tree_unflatten(_, _)
tree_unflatten(vs, s) ==
    IF ~IsTreeSpec(s) THEN UnflatRaise("ValueError", 0)
    ELSE IF LeafCountMismatch(vs, s) THEN UnflatRaise("ValueError", 0)
    ELSE IF IsLeafSpec(s) THEN UnflatReturn(vs[1], 0)
    ELSE IF s.type \notin DOMAIN SUPPORTED_NODES THEN UnflatRaise("KeyError", 0)
    ELSE LET n == Len(s.children_specs)
             end == [i \in 0..n |->
                        SumSeq([j \in 1..i |-> s.children_specs[j].num_leaves])]
             subs == [i \in 1..n |->
                        tree_unflatten(Slice(vs, end[i - 1], end[i]), s.children_specs[i])]
             bad == {i \in 1..n : subs[i].exc # ""}
             last == IF bad # {} THEN SetMin(bad) ELSE n
             made == SumSeq([i \in 1..last |-> subs[i].calls])
         IN  IF bad # {} THEN UnflatRaise(subs[last].exc, made)
             ELSE LET r == CallUnflattenFn(SUPPORTED_NODES[s.type].unflatten_fn,
                                           [i \in 1..n |-> subs[i].tree], s.context)
                  IN  IF r.exc # "" THEN UnflatRaise(r.exc, made + 1)
                      ELSE UnflatReturn(r.tree, made + 1)

(***************************************************************************)
(* _broadcast_to_and_flatten.  kind is "list" (a list is returned),        *)
(* "None" (None is returned) or "raise".                                   *)
(***************************************************************************)
BroadcastReturn(leaves) == [kind |-> "list", exc |-> "", leaves |-> leaves]

BroadcastNone == [kind |-> "None", exc |-> "", leaves |-> <<>>]

BroadcastRaise(exc) == [kind |-> "raise", exc |-> exc, leaves |-> <<>>]

(* Variant: contexts not compared. *)
ContextEqAlways(c1, c2) == TRUE

(* context == context, on None and lists of keys *)
ContextEq(c1, c2) == c1 = c2

RECURSIVE _broadcast_to_and_flatten(_, _)
_broadcast_to_and_flatten(p, s) ==
    IF ~IsTreeSpec(s) THEN BroadcastRaise("AssertionError")
    ELSE IF _is_leaf(p) THEN BroadcastReturn(Repeat(p, s.num_leaves))
    ELSE IF IsLeafSpec(s) THEN BroadcastNone
    ELSE IF p.type # s.type THEN BroadcastNone
    ELSE LET fl == CallFlattenFn(SUPPORTED_NODES[p.type].flatten_fn, p)
         IN  IF fl.exc # "" THEN BroadcastRaise(fl.exc)
             ELSE IF \/ Len(fl.children) # Len(s.children_specs)
                     \/ ~ContextEq(fl.context, s.context)
             THEN BroadcastNone
             ELSE LET n == Len(fl.children)
                      subs == [i \in 1..n |->
                                 _broadcast_to_and_flatten(fl.children[i], s.children_specs[i])]
                      bad == {i \in 1..n : subs[i].kind # "list"}
                  IN  IF bad # {} THEN subs[SetMin(bad)]
                      ELSE BroadcastReturn(ExtendAll(<<>>, [i \in 1..n |-> subs[i].leaves]))

(***************************************************************************)
(* TreeSpec.__eq__                                                         *)
(***************************************************************************)
RECURSIVE SpecEq(_, _)
SpecEq(a, b) ==
    /\ a.type = b.type
    /\ ContextEq(a.context, b.context)
    /\ Len(a.children_specs) = Len(b.children_specs)
    /\ \A i \in 1..Len(a.children_specs) : SpecEq(a.children_specs[i], b.children_specs[i])
    /\ a.num_leaves = b.num_leaves

(***************************************************************************)
(* Input sets.                                                             *)
(***************************************************************************)
Keys == {"a", "b"}

KeyOrders(n) ==
    {ks \in [1..n -> Keys] : \A i, j \in 1..n : i # j => ks[i] # ks[j]}

LeafValues == {PyInt(1), PyInt(2), PySize(<<PyInt(1)>>)}

RECURSIVE PytreesOfSize(_)
RECURSIVE Forests(_)
PytreesOfSize(n) ==
    IF n = 1
    THEN LeafValues \cup {PyList(<<>>), PyTuple(<<>>), PyDict(<<>>, <<>>)}
    ELSE LET fs == Forests(n - 1)
         IN  {PyList(f) : f \in fs} \cup {PyTuple(f) : f \in fs}
             \cup UNION {{PyDict(ks, f) : ks \in KeyOrders(Len(f))} : f \in fs}

Forests(k) ==
    IF k = 0 THEN {<<>>}
    ELSE UNION {{<<t>> \o f : t \in PytreesOfSize(j), f \in Forests(k - j)} : j \in 1..k}

PytreesUpTo(n) == UNION {PytreesOfSize(k) : k \in 1..n}

(* The descriptors of the values above, built with the constructors. *)
RECURSIVE SpecsOfSize(_)
RECURSIVE SpecForests(_)
SpecsOfSize(n) ==
    IF n = 1
    THEN {LeafSpec, TreeSpec("list", NoneCtx, <<>>), TreeSpec("tuple", NoneCtx, <<>>),
          TreeSpec("dict", KeysCtx(<<>>), <<>>)}
    ELSE LET fs == SpecForests(n - 1)
         IN  {TreeSpec("list", NoneCtx, f) : f \in fs}
             \cup {TreeSpec("tuple", NoneCtx, f) : f \in fs}
             \cup UNION {{TreeSpec("dict", KeysCtx(ks), f) : ks \in KeyOrders(Len(f))} : f \in fs}

SpecForests(k) ==
    IF k = 0 THEN {<<>>}
    ELSE UNION {{<<t>> \o f : t \in SpecsOfSize(j), f \in SpecForests(k - j)} : j \in 1..k}

SpecsUpTo(n) == UNION {SpecsOfSize(k) : k \in 1..n}

(* The examples of the documentation. *)
ExampleTrees ==
    {PyDict(<<"a", "b">>, <<PyInt(1), PyInt(2)>>),
     PyDict(<<"a", "b">>, <<PyInt(3), PyInt(4)>>),
     PyDict(<<"b", "a">>, <<PyInt(2), PyInt(1)>>),
     PyList(<<PyInt(1), PyInt(2)>>),
     PyList(<<PyInt(1), PyInt(2), PyInt(3)>>),
     PyDict(<<"x", "y">>, <<PyInt(1), PyInt(2)>>),
     PyDict(<<"x", "y">>, <<PyList(<<PyInt(1), PyInt(2)>>), PyTuple(<<PyInt(3)>>)>>)}

ExampleSpecs ==
    {TreeSpec("list", NoneCtx, <<LeafSpec, LeafSpec>>),
     TreeSpec("dict", KeysCtx(<<"a", "b">>), <<LeafSpec, LeafSpec>>),
     TreeSpec("dict", KeysCtx(<<"x", "y">>),
              <<TreeSpec("list", NoneCtx, <<LeafSpec, LeafSpec>>),
                TreeSpec("tuple", NoneCtx, <<LeafSpec>>)>>)}

(* Descriptors a caller builds with the constructor that no value decomposes to. *)
DirectSpecs ==
    {TreeSpec("None", NoneCtx, <<>>),
     TreeSpec("None", NoneCtx, <<LeafSpec>>),
     TreeSpec("Size", NoneCtx, <<LeafSpec>>),
     TreeSpec("dict", NoneCtx, <<LeafSpec>>),
     TreeSpec("dict", KeysCtx(<<"a">>), <<LeafSpec, LeafSpec>>),
     TreeSpec("dict", KeysCtx(<<"a", "a">>), <<LeafSpec, LeafSpec>>),
     TreeSpec("list", KeysCtx(<<"a">>), <<LeafSpec>>)}

Pytrees == PytreesUpTo(MaxNodes)

DecompositionSpecs == SpecsUpTo(MaxSpecNodes) \cup ExampleSpecs

UnflattenSpecs == DecompositionSpecs \cup DirectSpecs \cup {NotATreeSpec}

UnflattenElements == {PyInt(1), PyInt(2), PyList(<<PyInt(1)>>)}

UnflattenValues == UNION {[1..n -> UnflattenElements] : n \in 0..MaxLeaves}

BroadcastTrees == PytreesUpTo(MaxSmall) \cup ExampleTrees

BroadcastSpecs == DecompositionSpecs \cup DirectSpecs \cup {NotATreeSpec}

EqTrees == PytreesUpTo(MaxSmall) \cup ExampleTrees

EqSpecs == SpecsUpTo(MaxSmall) \cup ExampleSpecs \cup DirectSpecs

None == [fn |-> "none"]

(***************************************************************************)
(* The operations on the module as its import leaves it.  None of them     *)
(* writes any state of the module, so a behaviour makes one call.          *)
(***************************************************************************)
Init ==
    /\ SUPPORTED_NODES = ImportedNodes
    /\ op = "import"
    /\ pytree = PyNone
    /\ values = <<>>
    /\ spec = NotATreeSpec
    /\ other = NotATreeSpec
    /\ out = None
    /\ first = None
    /\ log = <<>>

Flatten ==
    /\ op = "import"
    /\ \E p \in Pytrees :
        /\ op' = "tree_flatten"
        /\ pytree' = p
        /\ out' = tree_flatten(p)
        /\ UNCHANGED <<SUPPORTED_NODES, values, spec, other, first, log>>

Unflatten ==
    /\ op = "import"
    /\ \E vs \in UnflattenValues, s \in UnflattenSpecs :
        /\ op' = "tree_unflatten"
        /\ values' = vs
        /\ spec' = s
        /\ out' = tree_unflatten(vs, s)
        /\ UNCHANGED <<SUPPORTED_NODES, pytree, other, first, log>>

Broadcast ==
    /\ op = "import"
    /\ \E p \in BroadcastTrees, s \in BroadcastSpecs :
        /\ op' = "_broadcast_to_and_flatten"
        /\ pytree' = p
        /\ spec' = s
        /\ out' = _broadcast_to_and_flatten(p, s)
        /\ UNCHANGED <<SUPPORTED_NODES, values, other, first, log>>

(* spec == other, on the descriptors of two values *)
EqFlattened ==
    /\ op = "import"
    /\ \E p, q \in EqTrees :
        /\ op' = "__eq__"
        /\ pytree' = p
        /\ values' = <<q>>
        /\ spec' = tree_flatten(p).spec
        /\ other' = tree_flatten(q).spec
        /\ out' = [eq |-> SpecEq(tree_flatten(p).spec, tree_flatten(q).spec)]
        /\ UNCHANGED <<SUPPORTED_NODES, first, log>>

(* spec == other, on descriptors built with the constructors *)
EqDirect ==
    /\ op = "import"
    /\ \E a, b \in EqSpecs :
        /\ op' = "__eq__"
        /\ spec' = a
        /\ other' = b
        /\ out' = [eq |-> SpecEq(a, b)]
        /\ UNCHANGED <<SUPPORTED_NODES, pytree, values, first, log>>

Next == Flatten \/ Unflatten \/ Broadcast \/ EqFlattened \/ EqDirect

Spec == Init /\ [][Next]_vars

(***************************************************************************)
(* Python's == on the values.                                              *)
(***************************************************************************)
RECURSIVE PyEq(_, _)
PyEq(x, y) ==
    LET seqEq == /\ Len(x.items) = Len(y.items)
                 /\ \A i \in 1..Len(x.items) : PyEq(x.items[i], y.items[i])
        tuples == {"tuple", "Size"}
    IN  CASE x.type = "int" /\ y.type = "int" -> x.val = y.val
          [] x.type = "str" /\ y.type = "str" -> x.keys = y.keys
          [] x.type = "list" /\ y.type = "list" -> seqEq
          [] x.type \in tuples /\ y.type \in tuples -> seqEq
          [] x.type = "dict" /\ y.type = "dict" ->
                /\ Len(x.keys) = Len(y.keys)
                /\ \A i \in 1..Len(x.keys) : \E j \in 1..Len(y.keys) :
                       x.keys[i] = y.keys[j] /\ PyEq(x.items[i], y.items[j])
          [] OTHER -> FALSE

(***************************************************************************)
(* The structure of a value of the built-in containers, read off the       *)
(* value: its leaves counted, and its k-th leaf from the left.             *)
(***************************************************************************)
BuiltinContainers == {"dict", "list", "tuple"}

RECURSIVE Concat(_)
Concat(seqs) == IF seqs = <<>> THEN <<>> ELSE Head(seqs) \o Concat(Tail(seqs))

RECURSIVE NumLeavesOf(_)
NumLeavesOf(x) ==
    IF x.type \notin BuiltinContainers THEN 1
    ELSE SumSeq([i \in 1..Len(x.items) |-> NumLeavesOf(x.items[i])])

(* The child that holds the k-th of the leaves counted by counts, and the
   number of leaves to its left. *)
ChildOf(counts, k) ==
    CHOOSE i \in 1..Len(counts) :
        /\ SumSeq(SubSeq(counts, 1, i - 1)) < k
        /\ k <= SumSeq(SubSeq(counts, 1, i))

LeftOf(counts, i) == SumSeq(SubSeq(counts, 1, i - 1))

RECURSIVE KthLeaf(_, _)
KthLeaf(x, k) ==
    IF x.type \notin BuiltinContainers THEN x
    ELSE LET counts == [i \in 1..Len(x.items) |-> NumLeavesOf(x.items[i])]
             i == ChildOf(counts, k)
         IN  KthLeaf(x.items[i], k - LeftOf(counts, i))

(* The leaf of x that stands over the k-th leaf position of descriptor s. *)
RECURSIVE LeafOver(_, _, _)
LeafOver(x, s, k) ==
    IF x.type \notin BuiltinContainers THEN x
    ELSE LET counts == [i \in 1..Len(s.children_specs) |-> s.children_specs[i].num_leaves]
             i == ChildOf(counts, k)
         IN  LeafOver(x.items[i], s.children_specs[i], k - LeftOf(counts, i))

RECURSIVE CountLeafSpecs(_)
CountLeafSpecs(s) ==
    IF s.cls = "LeafSpec" THEN 1
    ELSE SumSeq([i \in 1..Len(s.children_specs) |-> CountLeafSpecs(s.children_specs[i])])

RECURSIVE LeafCountHolds(_)
LeafCountHolds(s) ==
    /\ s.num_leaves = CountLeafSpecs(s)
    /\ \A i \in 1..Len(s.children_specs) : LeafCountHolds(s.children_specs[i])

RECURSIVE StructEq(_, _)
StructEq(a, b) ==
    /\ a.cls = b.cls
    /\ a.type = b.type
    /\ a.context = b.context
    /\ Len(a.children_specs) = Len(b.children_specs)
    /\ \A i \in 1..Len(a.children_specs) : StructEq(a.children_specs[i], b.children_specs[i])

AllLeaves(vs) == \A i \in 1..Len(vs) : _is_leaf(vs[i])

(***************************************************************************)
(* C1.  Round trip: a value built from dict, list and tuple (nested, empty *)
(* ones included) with opaque leaves is flattened without error, and       *)
(* tree_unflatten of the leaves and the descriptor returns a value equal   *)
(* to it.                                                                  *)
(***************************************************************************)
C1_RoundTrip ==
    op = "tree_flatten" =>
        /\ out.exc = ""
        /\ LET r == tree_unflatten(out.leaves, out.spec)
           IN  r.exc = "" /\ PyEq(r.tree, pytree)

C1_Witness ==
    /\ op = "tree_flatten"
    /\ pytree = PyDict(<<"b", "a">>, <<PyTuple(<<PyInt(1)>>), PyList(<<>>)>>)
    /\ tree_unflatten(out.leaves, out.spec).tree = pytree

C3_LeafCount ==
    /\ spec.cls # "object" => LeafCountHolds(spec)
    /\ other.cls # "object" => LeafCountHolds(other)
    /\ (op = "tree_flatten" /\ out.exc = "") =>
           /\ LeafCountHolds(out.spec)
           /\ out.spec.num_leaves = Len(out.leaves)

C3_Witness ==
    /\ op = "tree_flatten"
    /\ pytree = PyList(<<PyList(<<PyInt(1), PyInt(2)>>)>>)
    /\ out.spec.num_leaves = 2
    /\ Len(out.leaves) = 2

(***************************************************************************)
(* C4.  tree_unflatten fails fast: with a spec that is no TreeSpec, or a   *)
(* number of values other than spec.num_leaves, the call raises ValueError *)
(* having invoked no registered unflatten function, and returns no value.  *)
(***************************************************************************)
C4_FailFast ==
    (/\ op = "tree_unflatten"
     /\ (spec.cls = "object" \/ Len(values) # spec.num_leaves)) =>
        /\ out.exc = "ValueError"
        /\ out.calls = 0
        /\ out.tree = PyNone

C4_Witness ==
    /\ op = "tree_unflatten"
    /\ spec = TreeSpec("list", NoneCtx, <<LeafSpec, LeafSpec>>)
    /\ Len(values) = 3
    /\ out.exc = "ValueError"
    /\ out.calls = 0

(***************************************************************************)
(* C5, as stated.  _broadcast_to_and_flatten never raises: whatever the    *)
(* value and the second argument, it returns a list or None.               *)
(***************************************************************************)
C5_NeverRaises ==
    op = "_broadcast_to_and_flatten" => out.kind \in {"list", "None"}

(***************************************************************************)
(* C5, amended.  When the second argument is a TreeSpec,                   *)
(* _broadcast_to_and_flatten returns a list or None; when it is not, the   *)
(* call raises AssertionError.                                             *)
(***************************************************************************)
C5_RaisesOnlyOnNonSpec ==
    op = "_broadcast_to_and_flatten" =>
        /\ spec.cls \in {"TreeSpec", "LeafSpec"} => out.kind \in {"list", "None"}
        /\ spec.cls = "object" => (out.kind = "raise" /\ out.exc = "AssertionError")

C5_Witness ==
    /\ op = "_broadcast_to_and_flatten"
    /\ pytree = PyList(<<PyInt(1), PyInt(2), PyInt(3)>>)
    /\ spec = TreeSpec("list", NoneCtx, <<LeafSpec, LeafSpec>>)
    /\ out.kind = "None"

(***************************************************************************)
(* C6.  Descriptor equality is structural: == on two descriptors is true   *)
(* exactly when they are of the same variant, type and context and their   *)
(* children are pairwise equal in the same sense.  The descriptors of two  *)
(* dicts of leaves are equal exactly when the two dicts have the same keys *)
(* in the same order, whatever the leaves.                                 *)
(***************************************************************************)
C6_StructuralEq ==
    op = "__eq__" =>
        /\ out.eq <=> StructEq(spec, other)
        /\ (/\ Len(values) = 1
            /\ pytree.type = "dict"
            /\ values[1].type = "dict"
            /\ AllLeaves(pytree.items)
            /\ AllLeaves(values[1].items)) =>
               (out.eq <=> pytree.keys = values[1].keys)

C6_Witness ==
    /\ op = "__eq__"
    /\ pytree = PyDict(<<"a", "b">>, <<PyInt(1), PyInt(2)>>)
    /\ values = <<PyDict(<<"a", "b">>, <<PyInt(3), PyInt(4)>>)>>
    /\ out.eq

(***************************************************************************)
(* C9.  Flatten order: the leaves tree_flatten returns are the leaves of   *)
(* the value from left to right, depth first, a dict's values in the order *)
(* of insertion of their keys: the k-th element is the k-th leaf of the    *)
(* value, and the sequence of a container is the concatenation of the      *)
(* sequences of its children in order.                                     *)
(***************************************************************************)
C9_FlattenOrder ==
    (op = "tree_flatten" /\ out.exc = "") =>
        /\ Len(out.leaves) = NumLeavesOf(pytree)
        /\ \A k \in 1..Len(out.leaves) : out.leaves[k] = KthLeaf(pytree, k)
        /\ _is_leaf(pytree) => out.leaves = <<pytree>>
        /\ ~_is_leaf(pytree) =>
               out.leaves = Concat([i \in 1..Len(pytree.items) |->
                                       tree_flatten(pytree.items[i]).leaves])

C9_Witness ==
    /\ op = "tree_flatten"
    /\ pytree = PyDict(<<"b", "a">>, <<PyList(<<PyInt(2)>>), PyInt(1)>>)
    /\ out.leaves = <<PyInt(2), PyInt(1)>>

(***************************************************************************)
(* C10.  Broadcast alignment: a list returned by _broadcast_to_and_flatten *)
(* has spec.num_leaves elements, the k-th being the leaf of the value that *)
(* stands over the k-th leaf position of spec; a leaf value yields that    *)
(* value spec.num_leaves times.                                            *)
(***************************************************************************)
C10_BroadcastAligned ==
    (op = "_broadcast_to_and_flatten" /\ out.kind = "list") =>
        /\ Len(out.leaves) = spec.num_leaves
        /\ \A k \in 1..Len(out.leaves) : out.leaves[k] = LeafOver(pytree, spec, k)
        /\ _is_leaf(pytree) =>
               \A k \in 1..spec.num_leaves : out.leaves[k] = pytree

C10_Witness ==
    /\ op = "_broadcast_to_and_flatten"
    /\ pytree = PyDict(<<"x", "y">>, <<PyInt(1), PyInt(2)>>)
    /\ spec.num_leaves = 3
    /\ out.kind = "list"
    /\ out.leaves = <<PyInt(1), PyInt(1), PyInt(2)>>

(***************************************************************************)
(* The module with calls of _register_pytree_node between the calls of the *)
(* other operations: a first call of an operation is remembered in first   *)
(* (with the length of the log of registered types at that time), and the  *)
(* same operation is invoked again on the same inputs later.               *)
(***************************************************************************)
RegisterTypes == {"dict", "list", "tuple", "Size"}

NodeDefs ==
    {NodeDef("_dict_flatten", "_dict_unflatten"),
     NodeDef("_list_flatten", "_list_unflatten"),
     NodeDef("_tuple_flatten", "_tuple_unflatten")}

Call(o, p, vs, s) == [fn |-> o, arg |-> p, vals |-> vs, desc |-> s]

RegCalls ==
    {Call("tree_flatten", p, <<>>, NotATreeSpec) :
        p \in {PyInt(1),
               PyList(<<PyInt(1), PyInt(2)>>),
               PyTuple(<<PyInt(1)>>),
               PyDict(<<"a">>, <<PyInt(1)>>),
               PySize(<<PyInt(1), PyInt(2)>>),
               PyList(<<PySize(<<PyInt(1)>>)>>)}}
    \cup
    {Call("tree_unflatten", PyNone, <<PyInt(1), PyInt(2)>>, s) :
        s \in {TreeSpec("list", NoneCtx, <<LeafSpec, LeafSpec>>),
               TreeSpec("tuple", NoneCtx, <<LeafSpec, LeafSpec>>),
               TreeSpec("dict", KeysCtx(<<"a", "b">>), <<LeafSpec, LeafSpec>>),
               TreeSpec("Size", NoneCtx, <<LeafSpec, LeafSpec>>),
               TreeSpec("list", NoneCtx, <<LeafSpec>>)}}
    \cup
    {Call("_broadcast_to_and_flatten", PyInt(1), <<>>,
          TreeSpec("list", NoneCtx, <<LeafSpec, LeafSpec>>)),
     Call("_broadcast_to_and_flatten", PyList(<<PyInt(1)>>), <<>>,
          TreeSpec("list", NoneCtx, <<TreeSpec("tuple", NoneCtx, <<LeafSpec, LeafSpec>>)>>)),
     Call("_broadcast_to_and_flatten", PySize(<<PyInt(1), PyInt(2)>>), <<>>,
          TreeSpec("Size", NoneCtx, <<LeafSpec, LeafSpec>>)),
     Call("_broadcast_to_and_flatten", PyDict(<<"a">>, <<PyInt(1)>>), <<>>,
          TreeSpec("dict", KeysCtx(<<"a">>), <<LeafSpec>>))}

Outcome(c) ==
    CASE c.fn = "tree_flatten" -> tree_flatten(c.arg)
      [] c.fn = "tree_unflatten" -> tree_unflatten(c.vals, c.desc)
      [] c.fn = "_broadcast_to_and_flatten" -> _broadcast_to_and_flatten(c.arg, c.desc)

Register ==
    /\ Len(log) < MaxRegisters
    /\ \E typ \in RegisterTypes, nd \in NodeDefs :
        /\ SUPPORTED_NODES' = _register_pytree_node(typ, nd.flatten_fn, nd.unflatten_fn)
        /\ log' = Append(log, typ)
        /\ UNCHANGED <<op, pytree, values, spec, other, out, first>>

Invoke ==
    /\ first = None
    /\ \E c \in RegCalls :
        /\ op' = c.fn
        /\ pytree' = c.arg
        /\ values' = c.vals
        /\ spec' = c.desc
        /\ out' = Outcome(c)
        /\ first' = [fn |-> c.fn, arg |-> c.arg, vals |-> c.vals, desc |-> c.desc,
                     result |-> Outcome(c), at |-> Len(log)]
        /\ UNCHANGED <<SUPPORTED_NODES, other, log>>

InvokeAgain ==
    /\ first # None
    /\ out' = Outcome(Call(first.fn, first.arg, first.vals, first.desc))
    /\ UNCHANGED <<SUPPORTED_NODES, op, pytree, values, spec, other, first, log>>

NextReg == Register \/ Invoke \/ InvokeAgain

SpecReg == Init /\ [][NextReg]_vars

RECURSIVE TypesOfValue(_)
TypesOfValue(x) ==
    {x.type} \cup (IF x.keys # <<>> THEN {"str"} ELSE {})
             \cup UNION {TypesOfValue(x.items[i]) : i \in 1..Len(x.items)}

RECURSIVE TypesOfSpec(_)
TypesOfSpec(s) ==
    {s.type} \cup UNION {TypesOfSpec(s.children_specs[i]) : i \in 1..Len(s.children_specs)}

(* The types a call's inputs hold: of the value and the objects in it, of
   the values, and of the nodes of the descriptor. *)
TypesOfInputs(c) ==
    TypesOfValue(c.arg) \cup TypesOfSpec(c.desc)
        \cup UNION {TypesOfValue(c.vals[i]) : i \in 1..Len(c.vals)}

(* The types registered since the first call. *)
RegisteredSince(c) == {log[i] : i \in (c.at + 1)..Len(log)}

SameInputs ==
    /\ first # None
    /\ op = first.fn
    /\ pytree = first.arg
    /\ values = first.vals
    /\ spec = first.desc

(***************************************************************************)
(* C7.  Open-world leaf policy: a step of the module leaves every entry of *)
(* the registry in place, a call of _register_pytree_node setting the      *)
(* entry of its type and no other, so that a registered type stays         *)
(* registered; at every point _is_leaf is true of a value exactly when the *)
(* value's type has no entry, and tree_flatten returns the value alone     *)
(* under a LeafSpec exactly then.                                          *)
(***************************************************************************)
C7_OpenWorld ==
    /\ [](\A c \in RegCalls :
             /\ _is_leaf(c.arg) <=> c.arg.type \notin DOMAIN SUPPORTED_NODES
             /\ (tree_flatten(c.arg) = FlatReturn(<<c.arg>>, LeafSpec))
                    <=> c.arg.type \notin DOMAIN SUPPORTED_NODES)
    /\ [][/\ \A t \in DOMAIN SUPPORTED_NODES : t \in DOMAIN SUPPORTED_NODES'
          /\ IF log' # log
             THEN LET typ == log'[Len(log')]
                  IN  /\ DOMAIN SUPPORTED_NODES' = DOMAIN SUPPORTED_NODES \cup {typ}
                      /\ \A t \in DOMAIN SUPPORTED_NODES \ {typ} :
                             SUPPORTED_NODES'[t] = SUPPORTED_NODES[t]
             ELSE SUPPORTED_NODES' = SUPPORTED_NODES
         ]_vars

C7_Witness ==
    /\ "Size" \in DOMAIN SUPPORTED_NODES
    /\ SUPPORTED_NODES["list"] = ImportedNodes["list"]
    /\ op = "tree_flatten"
    /\ pytree = PySize(<<PyInt(1), PyInt(2)>>)
    /\ first.result = FlatReturn(<<pytree>>, LeafSpec)
    /\ out.leaves = <<PyInt(1), PyInt(2)>>

(***************************************************************************)
(* C8, as stated.  An operation invoked again on the same inputs has the   *)
(* same outcome, at any later point, calls of _register_pytree_node in     *)
(* between included.                                                       *)
(***************************************************************************)
C8_SameOutcome == SameInputs => out = first.result

(***************************************************************************)
(* C8, amended.  An operation invoked again on the same inputs has the     *)
(* same outcome at any later point, provided no call of                    *)
(* _register_pytree_node in between names a type that the inputs hold.     *)
(***************************************************************************)
C8_SameOutcomeUnlessRegistered ==
    (SameInputs /\ RegisteredSince(first) \cap TypesOfInputs(first) = {}) =>
        out = first.result

C8_Witness ==
    /\ SameInputs
    /\ op = "tree_flatten"
    /\ pytree = PyList(<<PyInt(1), PyInt(2)>>)
    /\ RegisteredSince(first) = {"Size", "dict"}
    /\ SUPPORTED_NODES["dict"] # ImportedNodes["dict"]
    /\ out = first.result
    /\ out.leaves = <<PyInt(1), PyInt(2)>>

=============================================================================
